---- MODULE Spec2Model ----
(***************************************************************************)
(* phLogger (src/main.py): a serial reader thread (SerialReader) that      *)
(* parses pH readings and emits them as queued Qt signals, and the main    *)
(* window (AppWindow) whose slot process_data appends each reading to the  *)
(* in-memory DataFrame, to the CSV file and to the chart.                  *)
(*                                                                         *)
(* Units: time is counted in clock ticks; "Elapsed Time (min)" is kept as  *)
(* the tick difference current_timestamp - initial_timestamp (the code     *)
(* divides it by the positive constant 60, which keeps order and zero).    *)
(* A pH value is kept in hundredths (float("7.10") is 710).                *)
(***************************************************************************)
EXTENDS Integers, Sequences, FiniteSets, TLC

\* ------------------------------------------------------------ bounds
MaxTime == 1
MaxWorkers == 2
MaxReads == 2

\* ------------------------------------------------------------ values
\* None for self.start_time and self.serial_thread, which hold numbers
None == -1
\* no exception
NoError == "None"
\* a path at which there is no file, and an absent settings.json
NoFile == [exists |-> FALSE, lines |-> <<>>]
NoSettings == "NoFile"
File(lines) == [exists |-> TRUE, lines |-> lines]

Workers == 1..MaxWorkers

\* What the port combo box shows: update_com_ports fills it once, in
\* init_settings_ui, so it stays empty ("") when no port was found then.
Ports == {"", "COM1"}
\* The texts of the two QLineEdits of the output binding.
Dirs == {"", "out"}
Names == {"", "log"}

\* Serial lines as readline() returns them (terminator included).
Line700 == <<"7", ".", "0", "0", "p", "H", "\n">>
LineGarbage == <<"7", "p", "H", ".", "1", "\n">>
LineNoisy == <<" ", "x", "6", ".", "9", "p", "H", "1", ".", "0", "p", "H", "\n">>
Lines == {Line700, LineGarbage, LineNoisy}

\* f"Error: {e}" of line 41, as text the slot searches like any other.
ErrorText == <<"E", "r", "r", "o", "r", ":", " ", "e">>

\* ------------------------------------------------------------ parsing
Whitespace == {" ", "\n"}

RECURSIVE LStrip(_)
LStrip(s) ==
  IF s # <<>> /\ Head(s) \in Whitespace THEN LStrip(Tail(s)) ELSE s

RECURSIVE RStrip(_)
RStrip(s) ==
  IF s # <<>> /\ s[Len(s)] \in Whitespace
  THEN RStrip(SubSeq(s, 1, Len(s) - 1))
  ELSE s

\* readline().decode(...).strip()
Strip(s) == RStrip(LStrip(s))

DigitVal(c) ==
  CASE c = "0" -> 0 [] c = "1" -> 1 [] c = "2" -> 2 [] c = "3" -> 3
    [] c = "4" -> 4 [] c = "5" -> 5 [] c = "6" -> 6 [] c = "7" -> 7
    [] c = "8" -> 8 [] c = "9" -> 9 [] OTHER -> -1

IsDigit(c) == DigitVal(c) >= 0

\* The index just past the longest run of digits that starts at i.
RECURSIVE DigitRunEnd(_, _)
DigitRunEnd(s, i) ==
  IF i <= Len(s) /\ IsDigit(s[i]) THEN DigitRunEnd(s, i + 1) ELSE i

NoMatch == <<>>

\* group(1) of (\d+\.\d+)pH anchored at i, or NoMatch.  Neither "." nor "p"
\* is a digit, so each \d+ can only end at the end of its run of digits.
MatchAt(s, i) ==
  LET j == DigitRunEnd(s, i)
      k == DigitRunEnd(s, j + 1)
  IN IF /\ j > i
        /\ j <= Len(s) /\ s[j] = "."
        /\ k > j + 1
        /\ k + 1 <= Len(s) /\ s[k] = "p" /\ s[k + 1] = "H"
     THEN SubSeq(s, i, k - 1)
     ELSE NoMatch

RECURSIVE SearchFrom(_, _)
SearchFrom(s, i) ==
  IF i > Len(s) THEN NoMatch
  ELSE IF MatchAt(s, i) # NoMatch THEN MatchAt(s, i)
  ELSE SearchFrom(s, i + 1)

\* (mutant of Search) the search misses a match at the start of the text
SearchFromSecond(s) == SearchFrom(s, 2)

\* re.search(r'(\d+\.\d+)pH', data): the leftmost match.
Search(s) == SearchFrom(s, 1)

RECURSIVE IntVal(_)
IntVal(ds) ==
  IF ds = <<>> THEN 0
  ELSE 10 * IntVal(SubSeq(ds, 1, Len(ds) - 1)) + DigitVal(ds[Len(ds)])

\* float(match.group(1)), in hundredths.
ToFloat(g) ==
  LET dot == CHOOSE i \in 1..Len(g) : g[i] = "."
      frac == SubSeq(g, dot + 1, Len(g))
      tenths == DigitVal(frac[1])
      hundredths == IF Len(frac) >= 2 THEN DigitVal(frac[2]) ELSE 0
  IN IntVal(SubSeq(g, 1, dot - 1)) * 100 + tenths * 10 + hundredths

\* ------------------------------------------------------------ state
VARIABLES
  now,          \* time.time() / QDateTime.currentDateTime()
  app,          \* "running", "aborted" (qFatal) or "closed" (self.close())
  pc,           \* where the GUI thread is: "idle", or blocked in wait()
  port,         \* self.com_ports.currentText()
  dirPath,      \* self.dir_path.text()
  filename,     \* self.filename.text()
  start_time,   \* self.start_time
  data,         \* self.data, the rows of the DataFrame
  serial_thread,\* self.serial_thread: None or a worker
  console,      \* the lines of self.console
  axes,         \* what self.ax holds: the points handed to ax.plot
  canvas,       \* what canvas.draw() rendered last
  files,        \* the CSV file at each path
  settings,     \* settings.json: NoSettings, or the saved com_port
  queue,        \* queued data_received events waiting for the GUI thread
  raised,       \* the exception that left the last process_data, or NoError
  wst,          \* per worker: "none", "started", "open", "reading"
                \* (blocked in readline()), "done"
  wrunning,     \* per worker: self.running
  wt0,          \* per worker: self.initial_timestamp
  linesRead,    \* per worker: the lines readline() returned (history)
  wcur,         \* per worker: created since the last reset (history)
  sync          \* per path (history): "synced" once the whole frame was
                \* written to a new file there and every sample since was
                \* appended to it; "gapped" once a sample since was not
                \* (binding elsewhere or missing); "none" otherwise

vars ==
  <<now, app, pc, port, dirPath, filename, start_time, data,
    serial_thread, console, axes, canvas, files, settings, queue, raised,
    wst, wrunning, wt0, linesRead, wcur, sync>>

guiVars ==
  <<port, dirPath, filename, start_time, data, serial_thread, console,
    axes, canvas, files, settings, raised>>

workerVars == <<wst, wrunning, wt0, linesRead>>

histVars == <<wcur, sync>>

\* ------------------------------------------------------------ CSV
Header == <<"Timestamp", "Elapsed Time (min)", "pH">>

\* One DataFrame row as to_csv writes it.
CsvRow(r) == <<r.ts, r.elapsed, r.ph>>

RECURSIVE CsvRows(_)
CsvRows(rows) ==
  IF rows = <<>> THEN <<>>
  ELSE <<CsvRow(Head(rows))>> \o CsvRows(Tail(rows))

\* self.data.to_csv(csv_path, index=False)
ToCsv(rows) == <<Header>> \o CsvRows(rows)

\* f"{output_directory}/{filename}.csv"
CsvPath(d, f) == <<d, f>>

Paths == {CsvPath(d, f) : d \in Dirs \ {""}, f \in Names \ {""}}

\* self.data['Elapsed Time (min)'], self.data['pH']
RECURSIVE PlotPoints(_)
PlotPoints(rows) ==
  IF rows = <<>> THEN <<>>
  ELSE <<<<Head(rows).elapsed, Head(rows).ph>>>> \o PlotPoints(Tail(rows))

RECURSIVE SumReads(_)
SumReads(S) ==
  IF S = {} THEN 0
  ELSE LET w == CHOOSE x \in S : TRUE
       IN Len(linesRead[w]) + SumReads(S \ {w})

TotalReads == SumReads(Workers)

\* ------------------------------------------------------------ Init
Init ==
  /\ now = 0
  /\ app = "running"
  /\ pc = "idle"
  /\ settings = NoSettings
  /\ port \in Ports
  /\ dirPath = ""
  /\ filename = ""
  /\ start_time = None
  /\ data = <<>>
  /\ serial_thread = None
  /\ console = <<>>
  /\ axes = <<>>
  /\ canvas = <<>>
  /\ files = [p \in Paths |-> NoFile]
  /\ queue = <<>>
  /\ raised = NoError
  /\ wst = [w \in Workers |-> "none"]
  /\ wrunning = [w \in Workers |-> FALSE]
  /\ wt0 = [w \in Workers |-> 0]
  /\ linesRead = [w \in Workers |-> <<>>]
  /\ wcur = [w \in Workers |-> FALSE]
  /\ sync = [p \in Paths |-> "none"]

\* ------------------------------------------------------------ helpers
\* (current_timestamp - self.initial_timestamp) / 60, in ticks
Elapsed(current_timestamp, initial_timestamp) ==
  current_timestamp - initial_timestamp

\* if output_directory and filename
HasBinding(d, f) == d # "" /\ f # ""

\* (mutant of FileAfterWrite) a new file gets the header and the new row only
FileAfterWriteNewRowOnly(file, rows, new_row) ==
  IF ~file.exists
  THEN File(ToCsv(<<new_row>>))
  ELSE File(Append(file.lines, CsvRow(new_row)))

\* (mutant of FileAfterWrite) every write rewrites the file from the frame
FileAfterWriteRewrites(file, rows, new_row) == File(ToCsv(rows))

\* lines 258-261: the whole frame into a new file, else the new row appended
FileAfterWrite(file, rows, new_row) ==
  IF ~file.exists
  THEN File(ToCsv(rows))
  ELSE File(Append(file.lines, CsvRow(new_row)))

\* (mutant of StartTimeOnStart) every start takes a new start_time
StartTimeAlways(st, t) == t

\* lines 217-218: start_time is taken only when there is none
StartTimeOnStart(st, t) == IF st = None THEN t ELSE st

\* line 268, self.update_plot_limits^(): the bound method xor the empty tuple
\* raises TypeError, and update_plot_limits (set_xlim, set_ylim,
\* canvas.draw) is never called.
PlotLimitsStatement == "TypeError"

\* What the runtime may do with an exception that leaves a slot: PyQt5 from
\* 5.5 on calls qFatal() (abort) unless an excepthook is installed, older
\* builds print the traceback and carry on.
AppAfter(exc) == IF exc # NoError THEN {"running", "aborted"} ELSE {app}

GuiReady == app = "running" /\ pc = "idle"

\* an event as data_received.emit(data, elapsed_time) posts it
Event(text, elapsed) == [data |-> text, elapsed |-> elapsed]

\* ------------------------------------------------------------ operator
Tick ==
  /\ now < MaxTime
  /\ now' = now + 1
  /\ UNCHANGED <<app, pc, guiVars, queue, workerVars>>
  /\ UNCHANGED histVars

\* select_output_directory, or typing into dir_path / filename
SetBinding ==
  /\ GuiReady
  /\ \E d \in Dirs, f \in Names :
       /\ <<d, f>> # <<dirPath, filename>>
       /\ dirPath' = d
       /\ filename' = f
  /\ UNCHANGED <<now, app, pc, port, start_time, data, serial_thread,
                 console, axes, canvas, files, settings, raised, queue,
                 workerVars>>
  /\ UNCHANGED histVars

\* ------------------------------------------------------------ start
\* (mutant of StartReading) start_reading without the test of line 216
StartReadingWithoutPortTest ==
  /\ GuiReady
  /\ \E w \in Workers :
       /\ wst[w] = "none"
       /\ \A v \in Workers : v < w => wst[v] # "none"
       /\ start_time' = StartTimeOnStart(start_time, now)
       /\ wst' = [wst EXCEPT ![w] = "started"]
       /\ wrunning' = [wrunning EXCEPT ![w] = TRUE]
       /\ wt0' = [wt0 EXCEPT ![w] = start_time']
       /\ wcur' = [wcur EXCEPT ![w] = TRUE]
       /\ serial_thread' = w
       /\ UNCHANGED linesRead
  /\ UNCHANGED <<now, app, pc, port, dirPath, filename, data, console,
                 axes, canvas, files, settings, queue, raised>>
  /\ UNCHANGED sync

\* start_reading.  baudrate.currentText() is never empty (the combo box is
\* filled in init_settings_ui), so the test is the one on port.
StartReading ==
  /\ GuiReady
  /\ IF port # ""
     THEN \E w \in Workers :
            /\ wst[w] = "none"
            /\ \A v \in Workers : v < w => wst[v] # "none"
            /\ start_time' = StartTimeOnStart(start_time, now)
            /\ wst' = [wst EXCEPT ![w] = "started"]
            /\ wrunning' = [wrunning EXCEPT ![w] = TRUE]
            /\ wt0' = [wt0 EXCEPT ![w] = start_time']
            /\ wcur' = [wcur EXCEPT ![w] = TRUE]
            /\ serial_thread' = w
            /\ UNCHANGED linesRead
     ELSE UNCHANGED <<start_time, serial_thread, workerVars, wcur>>
  /\ UNCHANGED <<now, app, pc, port, dirPath, filename, data, console,
                 axes, canvas, files, settings, queue, raised>>
  /\ UNCHANGED sync

\* ------------------------------------------------------------ stop
\* (mutant of WaitOver) stop_reading without the wait()
WaitOverAtOnce == TRUE

\* self.serial_thread.wait() returns (at once when there is no thread)
WaitOver ==
  IF serial_thread = None THEN TRUE ELSE wst[serial_thread] = "done"

\* stop_reading up to wait(): the flag of the referenced worker is cleared;
\* the GUI thread then blocks in wait() (pc = kind, the handler that called
\* stop_reading) unless that worker has finished already.
StopCall(kind) ==
  /\ GuiReady
  /\ wrunning' = IF serial_thread # None
                 THEN [wrunning EXCEPT ![serial_thread] = FALSE]
                 ELSE wrunning
  /\ pc' = IF WaitOver THEN "idle" ELSE kind

\* stop_reading, as the slot of the Stop Reading button
StopReading ==
  /\ StopCall("stop")
  /\ UNCHANGED <<now, app, guiVars, queue, wst, wt0, linesRead>>
  /\ UNCHANGED histVars

\* (mutant of StopReadingReturn) stop clears the session as reset does
StopReadingReturnClears ==
  /\ app = "running" /\ pc = "stop"
  /\ WaitOver
  /\ pc' = "idle"
  /\ data' = <<>>
  /\ start_time' = None
  /\ UNCHANGED <<now, app, port, dirPath, filename, serial_thread, console,
                 axes, canvas, files, settings, raised, queue, workerVars,
                 histVars>>

StopReadingReturn ==
  /\ app = "running" /\ pc = "stop"
  /\ WaitOver
  /\ pc' = "idle"
  /\ UNCHANGED <<now, app, guiVars, queue, workerVars>>
  /\ UNCHANGED histVars

\* ------------------------------------------------------------ reset
\* (mutant of StartTimeAfterReset) reset forgets to clear start_time
StartTimeKept(st) == st

\* line 237
StartTimeAfterReset(st) == None

\* line 236
DataAfterReset(rows) == <<>>

\* (mutant of ResetBody) reset that also removes the CSV files
ResetBodyRemovesFiles ==
  /\ data' = DataAfterReset(data)
  /\ start_time' = StartTimeAfterReset(start_time)
  /\ console' = <<>>
  /\ axes' = <<>>
  /\ canvas' = <<>>
  /\ wcur' = [w \in Workers |-> FALSE]
  /\ sync' = [p \in Paths |-> "none"]
  /\ files' = [p \in Paths |-> NoFile]
  /\ UNCHANGED <<now, app, port, dirPath, filename, serial_thread,
                 settings, queue, raised, wst, wt0, linesRead>>

\* lines 235-242, what reset does once stop_reading has returned
ResetBody ==
  /\ data' = DataAfterReset(data)
  /\ start_time' = StartTimeAfterReset(start_time)
  /\ console' = <<>>
  /\ axes' = <<>>
  /\ canvas' = <<>>
  /\ wcur' = [w \in Workers |-> FALSE]
  /\ sync' = [p \in Paths |-> "none"]
  /\ UNCHANGED <<now, app, port, dirPath, filename, serial_thread,
                 files, settings, queue, raised, wst, wt0, linesRead>>

Reset ==
  /\ StopCall("reset")
  /\ IF WaitOver
     THEN ResetBody
     ELSE UNCHANGED <<now, app, guiVars, queue, wst, wt0, linesRead, histVars>>

ResetReturn ==
  /\ app = "running" /\ pc = "reset"
  /\ WaitOver
  /\ pc' = "idle"
  /\ ResetBody
  /\ UNCHANGED wrunning

\* ------------------------------------------------------------ stop and save
\* save_settings, then close() (closeEvent saves the settings again): the
\* event loop ends and the process exits.  Of its state only the files
\* remain; the rest is put back to what a process starts with.
SaveAndClose ==
  /\ settings' = port
  /\ app' = "closed"
  /\ pc' = "idle"
  /\ dirPath' = ""
  /\ filename' = ""
  /\ start_time' = None
  /\ data' = <<>>
  /\ serial_thread' = None
  /\ console' = <<>>
  /\ axes' = <<>>
  /\ canvas' = <<>>
  /\ queue' = <<>>
  /\ raised' = NoError
  /\ wst' = [w \in Workers |-> "none"]
  /\ wrunning' = [w \in Workers |-> FALSE]
  /\ wt0' = [w \in Workers |-> 0]
  /\ linesRead' = [w \in Workers |-> <<>>]
  /\ wcur' = [w \in Workers |-> FALSE]
  /\ sync' = [p \in Paths |-> "none"]
  /\ UNCHANGED <<now, port, files>>

StopAndSave ==
  /\ GuiReady
  /\ IF WaitOver
     THEN SaveAndClose
     ELSE /\ StopCall("save")
          /\ UNCHANGED <<now, app, guiVars, queue, wst, wt0, linesRead, histVars>>

StopAndSaveReturn ==
  /\ app = "running" /\ pc = "save"
  /\ WaitOver
  /\ SaveAndClose

\* ------------------------------------------------------------ the slot
\* The history of path p after a sample was taken into the frame and the
\* write, if there was one, went well.
SyncAfter(was, p, existed) ==
  IF HasBinding(dirPath, filename) /\ p = CsvPath(dirPath, filename)
  THEN (IF existed THEN was ELSE "synced")
  ELSE (IF was = "none" THEN "none" ELSE "gapped")

\* process_data(data, elapsed_time), run by the GUI thread for the event at
\* the head of its queue.  A write that fails is an open() that fails
\* (directory gone, permission denied): the file system is left as it was.
ProcessData ==
  /\ GuiReady
  /\ queue # <<>>
  /\ LET ev == Head(queue)
         m == Search(ev.data)
         new_row == [ts |-> now, elapsed |-> ev.elapsed, ph |-> ToFloat(m)]
         rows == Append(data, new_row)
         path == CsvPath(dirPath, filename)
     IN /\ queue' = Tail(queue)
        /\ console' = Append(console, ev.data)
        /\ IF m = NoMatch
           THEN \* line 247: re.search(...) is None, .group raises
                /\ raised' = "AttributeError"
                /\ UNCHANGED <<data, files, axes, canvas, sync>>
           ELSE /\ data' = rows
                /\ \/ /\ HasBinding(dirPath, filename)
                      /\ raised' = "OSError"
                      /\ sync' = [p \in Paths |-> "none"]
                      /\ UNCHANGED <<files, axes, canvas>>
                   \/ /\ files' = IF HasBinding(dirPath, filename)
                                  THEN [files EXCEPT ![path] =
                                          FileAfterWrite(@, rows, new_row)]
                                  ELSE files
                      /\ sync' = [p \in Paths |->
                                    SyncAfter(sync[p], p, files[p].exists)]
                      /\ axes' = PlotPoints(rows)
                      /\ raised' = PlotLimitsStatement
                      /\ canvas' = IF PlotLimitsStatement = NoError
                                   THEN axes' ELSE canvas
        /\ app' \in AppAfter(raised')
  /\ UNCHANGED <<now, pc, port, dirPath, filename, start_time,
                 serial_thread, settings, workerVars, wcur>>

\* ------------------------------------------------------------ the worker
\* serial.Serial(port, baudrate) succeeds
WorkerOpen(w) ==
  /\ app = "running"
  /\ wst[w] = "started"
  /\ wst' = [wst EXCEPT ![w] = "open"]
  /\ UNCHANGED <<now, app, pc, guiVars, queue, wrunning, wt0, linesRead>>
  /\ UNCHANGED histVars

\* (mutant of WorkerFails) the worker reports the failure and tries again
WorkerFailsRetries(w) ==
  /\ app = "running"
  /\ \/ wst[w] = "started"
     \/ wst[w] = "open" /\ wrunning[w]
     \/ wst[w] = "reading"
  /\ Len(queue) < MaxReads
  /\ queue' = Append(queue, Event(ErrorText, 0))
  /\ wst' = [wst EXCEPT ![w] = "started"]
  /\ UNCHANGED <<now, app, pc, guiVars, wrunning, wt0, linesRead, histVars>>

\* serial.Serial(...) or readline() raises SerialException: line 41
WorkerFails(w) ==
  /\ app = "running"
  /\ \/ wst[w] = "started"
     \/ wst[w] = "open" /\ wrunning[w]
     \/ wst[w] = "reading"
  /\ queue' = Append(queue, Event(ErrorText, 0))
  /\ wst' = [wst EXCEPT ![w] = "done"]
  /\ UNCHANGED <<now, app, pc, guiVars, wrunning, wt0, linesRead>>
  /\ UNCHANGED histVars

\* line 31 with in_waiting nonzero and no line terminator in the input: the
\* port is opened without a timeout (line 28), so readline() blocks until
\* the terminator arrives
WorkerBlocks(w) ==
  /\ app = "running"
  /\ wst[w] = "open"
  /\ wrunning[w]
  /\ TotalReads < MaxReads
  /\ wst' = [wst EXCEPT ![w] = "reading"]
  /\ UNCHANGED <<now, app, pc, guiVars, queue, wrunning, wt0, linesRead>>
  /\ UNCHANGED histVars

\* one turn of the loop with input waiting, lines 30-39: readline() returns
\* a line, at once or (for a worker blocked in it) when the terminator
\* arrives
WorkerRead(w) ==
  /\ app = "running"
  /\ \/ wst[w] = "open" /\ wrunning[w]
     \/ wst[w] = "reading"
  /\ TotalReads < MaxReads
  /\ \E line \in Lines :
       LET text == Strip(line)
       IN /\ linesRead' = [linesRead EXCEPT ![w] = Append(@, line)]
          /\ queue' = IF Search(text) # NoMatch
                      THEN Append(queue, Event(text, Elapsed(now, wt0[w])))
                      ELSE queue
  /\ wst' = [wst EXCEPT ![w] = "open"]
  /\ UNCHANGED <<now, app, pc, guiVars, wrunning, wt0>>
  /\ UNCHANGED histVars

\* while self.running is false: the with block closes the port, run returns
WorkerExit(w) ==
  /\ app = "running"
  /\ wst[w] = "open"
  /\ ~wrunning[w]
  /\ wst' = [wst EXCEPT ![w] = "done"]
  /\ UNCHANGED <<now, app, pc, guiVars, queue, wrunning, wt0, linesRead>>
  /\ UNCHANGED histVars

\* ------------------------------------------------------------ spec
Next ==
  \/ Tick
  \/ SetBinding
  \/ StartReading
  \/ StopReading
  \/ StopReadingReturn
  \/ Reset
  \/ ResetReturn
  \/ StopAndSave
  \/ StopAndSaveReturn
  \/ ProcessData
  \/ \E w \in Workers : WorkerOpen(w)
  \/ \E w \in Workers : WorkerFails(w)
  \/ \E w \in Workers : WorkerBlocks(w)
  \/ \E w \in Workers : WorkerRead(w)
  \/ \E w \in Workers : WorkerExit(w)

Spec == Init /\ [][Next]_vars

\* The threads are scheduled: a worker that can open the port or leave its
\* loop does, and a wait() that can return does.  What the device sends and
\* what the operator does is under no such obligation.
Fairness ==
  /\ \A w \in Workers : WF_vars(WorkerOpen(w)) /\ WF_vars(WorkerExit(w))
  /\ WF_vars(StopReadingReturn)
  /\ WF_vars(ResetReturn)
  /\ WF_vars(StopAndSaveReturn)

FairSpec == Spec /\ Fairness

\* ------------------------------------------------------------ claims
\* What the device means by each line, and by each text the worker emits,
\* written down independently of the parser: the reading in hundredths, or
\* -1 where the line holds none.
Text700 == <<"7", ".", "0", "0", "p", "H">>
TextNoisy == <<"x", "6", ".", "9", "p", "H", "1", ".", "0", "p", "H">>

ReadingOfLine(line) ==
  CASE line = Line700 -> 700
    [] line = LineNoisy -> 690
    [] OTHER -> -1

ReadingOfText(text) ==
  CASE text = Text700 -> 700
    [] text = TextNoisy -> 690
    [] OTHER -> -1

RECURSIVE Readings(_)
Readings(lines) ==
  IF lines = <<>> THEN <<>>
  ELSE (IF ReadingOfLine(Head(lines)) >= 0
        THEN <<ReadingOfLine(Head(lines))>> ELSE <<>>)
       \o Readings(Tail(lines))

RECURSIVE RowValues(_)
RowValues(rows) ==
  IF rows = <<>> THEN <<>> ELSE <<Head(rows).ph>> \o RowValues(Tail(rows))

IsErrorEvent(ev) == ev.data = ErrorText

\* the readings of the sample events of a queue, in queue order
RECURSIVE PendingValues(_)
PendingValues(q) ==
  IF q = <<>> THEN <<>>
  ELSE (IF IsErrorEvent(Head(q)) THEN <<>>
        ELSE <<ReadingOfText(Head(q).data)>>)
       \o PendingValues(Tail(q))

HasErrorEvent(q) == \E i \in 1..Len(q) : IsErrorEvent(q[i])

\* Worker 1 is the only worker there has been, and no reset came after its
\* start.
SingleWorkerSession ==
  /\ wcur[1]
  /\ \A v \in Workers : v # 1 => wst[v] = "none"

\* C1: with a single worker and no reset, the readings of the lines read so
\* far are, one for one and in reading order, the values of the series
\* followed by those of the sample events still queued (so the series holds
\* exactly them once the queue is handled); a line without a reading adds
\* nothing, and while the worker has not failed there is no error event.
C1_SeriesIsReadingsInOrder ==
  SingleWorkerSession =>
    /\ RowValues(data) \o PendingValues(queue) = Readings(linesRead[1])
    /\ wst[1] \in {"started", "open", "reading"} =>
         /\ ~HasErrorEvent(queue)
         /\ \A i \in 1..Len(console) : console[i] # ErrorText

\* a garbage line, then a reading: the worker went on, the sample arrived
C1_Witness ==
  /\ SingleWorkerSession
  /\ linesRead[1] = <<LineGarbage, LineNoisy>>
  /\ queue = <<>>
  /\ RowValues(data) = <<690>>
  /\ wst[1] = "open"

StopReturns == StopReadingReturn \/ (StopReading /\ pc' = "idle")

ResetReturns == ResetReturn \/ (Reset /\ pc' = "idle")

StartsWorker == StartReading /\ port # ""

\* C2: a start with a port sets start_time only when it is None and hands
\* it to the new worker, whose initial_timestamp is that of the workers
\* started before it in the session; stop_reading leaves start_time alone;
\* start_time changes to a time only by a start and back to None only by
\* reset (or the exit of the process).
C2_Step ==
  /\ StartsWorker =>
       /\ start_time' = (IF start_time = None THEN now ELSE start_time)
       /\ serial_thread' \in Workers
       /\ wt0'[serial_thread'] = start_time'
       /\ \A v \in Workers : wcur[v] => wt0[v] = wt0'[serial_thread']
  /\ (StopReading \/ StopReadingReturn \/ pc = "stop") =>
       start_time' = start_time
  /\ (start_time' # start_time /\ start_time' # None) =>
       (StartsWorker /\ start_time = None)
  /\ (start_time # None /\ start_time' = None) =>
       (ResetReturns \/ app' = "closed")

C2_StartTimeStateMachine == [][C2_Step]_vars

\* a resumed session: worker 1 was stopped, worker 2 runs with the same
\* initial_timestamp although the clock has moved on
C2_Witness ==
  /\ wcur[1] /\ wcur[2]
  /\ wst[1] = "done" /\ ~wrunning[1]
  /\ wst[2] = "open" /\ wrunning[2]
  /\ serial_thread = 2
  /\ start_time = 0 /\ wt0[2] = 0 /\ now = 1
  /\ data # <<>>

\* C3: when reset returns the series is empty and start_time is None, and
\* a start with a port that finds start_time None takes the time of that
\* start.
C3_Step ==
  /\ ResetReturns => (data' = <<>> /\ start_time' = None)
  /\ (StartsWorker /\ start_time = None) => start_time' = now

C3_ResetClearsSession == [][C3_Step]_vars

\* a second session: worker 1 ran from time 0, reset came, worker 2 was
\* started at time 1
C3_Witness ==
  /\ wst[1] = "done" /\ wt0[1] = 0 /\ linesRead[1] # <<>>
  /\ ~wcur[1] /\ wcur[2]
  /\ start_time = 1 /\ wt0[2] = 1

\* C4: stop_reading, from its call to its return, leaves the series,
\* start_time, the output binding and the files as they are.
C4_Step ==
  (StopReading \/ StopReadingReturn \/ pc = "stop") =>
    /\ data' = data
    /\ start_time' = start_time
    /\ dirPath' = dirPath /\ filename' = filename
    /\ files' = files

C4_StopKeepsSession == [][C4_Step]_vars

\* stop_reading has halted its worker and is about to return, with samples
\* in the series, a start_time and a binding
C4_Witness ==
  /\ pc = "stop"
  /\ WaitOver
  /\ Len(data) >= 1
  /\ start_time # None
  /\ HasBinding(dirPath, filename)

\* C5 (as claimed): the elapsed times of the series never decrease.
C5_ElapsedNonDecreasing ==
  \A i, j \in 1..Len(data) : i < j => data[i].elapsed <= data[j].elapsed

\* C6: a file that did not exist when the first sample was persisted to its
\* path, with no write failure, no reset and the binding on that path at
\* every sample handled since, holds the header and then one row per sample
\* of the series, in series order; the samples taken before the first write
\* are in it.
C6_FreshFileMirrorsSeries ==
  \A p \in Paths : sync[p] = "synced" => files[p] = File(ToCsv(data))

\* two samples, the first handled before there was a binding: the file has
\* the header and both rows
C6_Witness ==
  \E p \in Paths :
    /\ sync[p] = "synced"
    /\ Len(data) = 2
    /\ data[1].ts < data[2].ts
    /\ Len(files[p].lines) = 3
    /\ files[p].lines[1] = Header

\* C7: an existing file is never removed, truncated or rewritten: it only
\* changes by process_data, bound to its path, appending the row of the
\* sample it has just taken into the series; and process_data does append
\* that one row when the bound file exists and the write goes well.
C7_Step ==
  /\ \A p \in Paths :
       files[p].exists =>
         /\ files'[p].exists
         /\ \/ files'[p] = files[p]
            \/ /\ ProcessData
               /\ p = CsvPath(dirPath, filename)
               /\ Len(data') = Len(data) + 1
               /\ files'[p].lines =
                    Append(files[p].lines, CsvRow(data'[Len(data')]))
  /\ ( /\ ProcessData
       /\ Len(data') = Len(data) + 1
       /\ HasBinding(dirPath, filename)
       /\ files[CsvPath(dirPath, filename)].exists
       /\ raised' # "OSError" ) =>
       files'[CsvPath(dirPath, filename)].lines =
         Append(files[CsvPath(dirPath, filename)].lines,
                CsvRow(data'[Len(data')]))

C7_AppendOnlyToExistingFile == [][C7_Step]_vars

\* a file written in an earlier session (header and one row) to which the
\* one sample of the present series was appended
C7_Witness ==
  \E p \in Paths :
    /\ files[p].exists
    /\ Len(files[p].lines) = 3
    /\ files[p].lines[1] = Header
    /\ Len(data) = 1
    /\ files[p].lines[3] = CsvRow(data[1])

\* C8 (as claimed): process_data of a sample with the binding missing takes
\* the sample into the series, redraws the chart from the whole series,
\* touches no file and raises nothing.
C8_Step ==
  ( /\ ProcessData
    /\ ~IsErrorEvent(Head(queue))
    /\ ~HasBinding(dirPath, filename) ) =>
    /\ Len(data') = Len(data) + 1
    /\ axes' = PlotPoints(data')
    /\ canvas' = PlotPoints(data')
    /\ files' = files
    /\ raised' = NoError

C8_MissingBindingIsQuiet == [][C8_Step]_vars

\* C9: a worker whose open or read fails posts exactly one error event and
\* is done; a worker that is done stays done and reads nothing more; events
\* are only posted by workers that are not done; a worker only comes into
\* being by start_reading with a port.
C9_Step ==
  \A w \in Workers :
    /\ WorkerFails(w) =>
         /\ queue' = Append(queue, Event(ErrorText, 0))
         /\ wst'[w] = "done"
         /\ linesRead' = linesRead
    /\ (wst[w] = "done" /\ app' # "closed") =>
         /\ wst'[w] = "done"
         /\ linesRead'[w] = linesRead[w]
    /\ (wst[w] = "none" /\ wst'[w] # "none") => StartsWorker
    /\ (Len(queue') > Len(queue)) =>
         \E v \in Workers :
           /\ wst[v] \in {"started", "open", "reading"}
           /\ WorkerFails(v) \/ WorkerRead(v)

C9_FailureEndsWorker == [][C9_Step]_vars

\* a worker that read a line and then died of a failure (its flag was never
\* cleared), its error event queued, and no other worker started
C9_Witness ==
  /\ wst[1] = "done" /\ wrunning[1]
  /\ linesRead[1] # <<>>
  /\ HasErrorEvent(queue)
  /\ wst[2] = "none"

\* C10 (as claimed): process_data of an error event, or with a write that
\* fails, ends normally: no exception leaves it, the process goes on, and
\* the samples of the series are as before.
C10_Step ==
  ( /\ ProcessData
    /\ IsErrorEvent(Head(queue)) \/ raised' = "OSError" ) =>
    /\ raised' = NoError
    /\ app' = "running"
    /\ SubSeq(data', 1, Len(data)) = data

C10_FailuresAreNotFatal == [][C10_Step]_vars

\* C11 (as claimed): when the write of process_data fails, the new sample
\* is in the series once, after the samples before it, and the chart is
\* handed the whole updated series.
C11_Step ==
  (ProcessData /\ raised' = "OSError") =>
    /\ Len(data') = Len(data) + 1
    /\ SubSeq(data', 1, Len(data)) = data
    /\ data'[Len(data')].ph = ReadingOfText(Head(queue).data)
    /\ axes' = PlotPoints(data')

C11_SeriesAndChartSurviveWriteFailure == [][C11_Step]_vars

\* a worker that has been started and has not left run()
Alive(w) == wst[w] \in {"started", "open", "reading"}

\* a worker that holds the serial port (inside the with block of run())
HoldsPort(w) == wst[w] \in {"open", "reading"}

\* C12 (as claimed): once its flag is cleared a worker eventually leaves
\* run() and releases the port, whatever the input does, and a stop_reading
\* that waits for it eventually returns (as long as the process runs).
C12_CancellationIsLive ==
  /\ \A w \in Workers :
       (Alive(w) /\ ~wrunning[w]) ~> (~Alive(w) \/ app # "running")
  /\ (pc # "idle") ~> (pc = "idle" \/ app # "running")

SaveReturns == StopAndSaveReturn \/ (StopAndSave /\ WaitOver)

\* C13 (as claimed): when stop_reading returns, on its own or inside reset
\* or stop_and_save, the worker it stopped has left run() and released the
\* port; and no worker opens the port while another worker holds it.
C13_Step ==
  /\ (StopReturns \/ ResetReturns \/ SaveReturns) =>
       (serial_thread # None => ~Alive(serial_thread))
  /\ \A w \in Workers :
       WorkerOpen(w) => \A v \in Workers : v # w => ~HoldsPort(v)

C13_StopWaitsForWorkerExit == [][C13_Step]_vars

\* C14 (as claimed): every worker that has not left run() is the one the
\* window references, so there is at most one, and at most one holds the
\* port.
C14_AtMostOneWorker ==
  /\ \A w \in Workers : Alive(w) => serial_thread = w
  /\ Cardinality({w \in Workers : HoldsPort(w)}) <= 1

\* C15: start_reading without a port creates no worker, leaves start_time,
\* the series, the files and the rest of the window as they are and raises
\* nothing; so with no port there never is a worker, a start_time, a sample
\* or a file.
C15_Step ==
  /\ (StartReading /\ port = "") =>
       /\ UNCHANGED <<wst, wrunning, serial_thread, start_time, data, files,
                      queue, raised, app, pc>>
  /\ port = "" =>
       /\ \A w \in Workers : wst'[w] = "none"
       /\ serial_thread' = None
       /\ start_time' = None
       /\ data' = <<>>
       /\ files' = files
       /\ raised' = NoError

C15_StartWithoutPortIsNoOp == [][C15_Step]_vars

\* no port, the window idle with a binding set and time gone by: a start
\* here is the no-op, and nothing was ever started
C15_Witness ==
  /\ port = ""
  /\ GuiReady
  /\ HasBinding(dirPath, filename)
  /\ now = MaxTime
  /\ serial_thread = None
  /\ start_time = None

\* C16: reset leaves every CSV file, the output binding, the selected port
\* and the settings file as they are; when it returns the series, the
\* console and the chart are empty and start_time is None.
C16_Step ==
  /\ (Reset \/ ResetReturn) =>
       UNCHANGED <<files, dirPath, filename, port, settings>>
  /\ ResetReturns =>
       /\ data' = <<>>
       /\ start_time' = None
       /\ console' = <<>>
       /\ axes' = <<>>
       /\ canvas' = <<>>

C16_ResetKeepsFilesAndBinding == [][C16_Step]_vars

\* after a reset of a session that had written a row: the file and the
\* binding are still there, the series and start_time are cleared
C16_Witness ==
  /\ app = "running" /\ pc = "idle"
  /\ wst[1] = "done" /\ ~wcur[1]
  /\ data = <<>> /\ start_time = None /\ console = <<>> /\ axes = <<>>
  /\ HasBinding(dirPath, filename)
  /\ files[CsvPath(dirPath, filename)].exists
  /\ Len(files[CsvPath(dirPath, filename)].lines) = 2

\* the number of readings in the lines read by the workers of S that were
\* started since the last reset
RECURSIVE SessionReadings(_)
SessionReadings(S) ==
  IF S = {} THEN 0
  ELSE LET w == CHOOSE x \in S : TRUE
       IN (IF wcur[w] THEN Len(Readings(linesRead[w])) ELSE 0)
          + SessionReadings(S \ {w})

\* C17 (as claimed): a series that is not empty has a start_time, and its
\* samples are readings of workers started since the last reset: there are
\* no more of them than such workers have read.
C17_SeriesBelongsToSession ==
  data # <<>> =>
    /\ start_time # None
    /\ Len(data) <= SessionReadings(Workers)

\* stop_reading has returned (on its own or inside reset) and there was no
\* start since: the referenced worker's flag is cleared and the GUI thread
\* is back in its event loop
Stopped ==
  /\ app = "running" /\ pc = "idle"
  /\ serial_thread # None
  /\ ~wrunning[serial_thread]

\* C18 (as claimed): after stop_reading has returned and until the next
\* start (or reset, or stop_and_save), the series and the files do not
\* change.  Stated for the session of a single worker with no reset.
C18_ClaimedStep ==
  (Stopped /\ SingleWorkerSession /\ ~Reset /\ ~StopAndSave) =>
    /\ data' = data
    /\ files' = files

C18_NothingChangesAfterStop == [][C18_ClaimedStep]_vars

\* C18 (amended): after stop_reading has returned and until the next start,
\* the worker it stopped has left run() and reads nothing more; the series
\* and the files change only by process_data taking the sample event at
\* the head of the queue, which appends that one row (events the worker
\* emitted while the stop was waiting are handled after the stop returned),
\* or by reset or stop_and_save.
C18_Step ==
  Stopped =>
    /\ ~Alive(serial_thread)
    /\ StopAndSave \/ linesRead'[serial_thread] = linesRead[serial_thread]
    /\ (data' # data \/ files' # files) =>
         \/ Reset
         \/ StopAndSave
         \/ /\ ProcessData
            /\ ~IsErrorEvent(Head(queue))
            /\ data' = Append(data, [ts |-> now,
                                     elapsed |-> Head(queue).elapsed,
                                     ph |-> ReadingOfText(Head(queue).data)])
            /\ \A p \in Paths :
                 files'[p] # files[p] =>
                   /\ p = CsvPath(dirPath, filename)
                   /\ files'[p].lines[Len(files'[p].lines)] =
                        CsvRow(data'[Len(data')])

C18_OnlyQueuedSamplesAfterStop == [][C18_Step]_vars

\* the stop has returned, the one worker is gone, and a sample it emitted
\* is still queued behind the one already in the series
C18_Witness ==
  /\ Stopped
  /\ SingleWorkerSession
  /\ wst[1] = "done"
  /\ Len(data) = 1
  /\ Len(queue) = 1
  /\ ~IsErrorEvent(queue[1])

====
